---- MODULE Spec2Model ----
(***************************************************************************)
(* Model of the simpledb storage kernel: paged file I/O (file/page.rs,     *)
(* file/manager.rs), the write-ahead log (log/manager.rs,                  *)
(* log/iterator.rs), the buffer pool (buffer/page.rs, buffer/manager.rs)   *)
(* and the lock table with its per-transaction concurrency manager         *)
(* (tx/concurrency/lock_table.rs, tx/concurrency/concurrency_manager.rs).  *)
(*                                                                         *)
(* A Page is a sequence of bytes (offset o of the code is index o+1).      *)
(* The log file is a sequence of such pages (block n is index n+1).        *)
(***************************************************************************)
EXTENDS Integers, Sequences, FiniteSets, TLC

\* ---------------------------------------------------------------- bounds

\* block_size handed to FileManager::new (400 in the tests)
BlockSize == 16
\* number of LogManager.append calls explored
MaxAppends == 3
\* num_buffs handed to BufferManager::new
NumBufs == 2
\* threads sharing the buffer manager
NumThreads == 2
\* blocks of the data file that are pinned
NumBlocks == 2
\* transaction numbers handed to set_modified and flush_all: 0..MaxTxn
MaxTxn == 1
\* values written into a data page: 1..MaxVal
MaxVal == 1
\* offset at which a data page is modified (80 in the tests)
DataOffset == 8
\* LogManager.append calls explored together with the buffer pool
MaxWalAppends == 2
\* handles one thread holds at a time (pins it has not yet released)
MaxHandles == 2
\* how far num_available may drift from the range 0..NumBufs
MaxLogBlocks == 3
MaxDrift == 2

\* ------------------------------------------------------- program constants

INT_SIZE == 4

\* ------------------------------------------------------------- variables

VARIABLES
    \* --- log manager (log/manager.rs) and the log file on disk
    logdisk,        \* the log file: sequence of blocks, each a page of bytes
    logcur,         \* the position (in blocks) of the log file's open file
                    \* description, which every clone of the handle shares
    logpage,        \* LogManager.logpage, the in-memory tail page
    current_blk,    \* LogManager.current_blk (block number in the log file)
    latest_lsn,     \* LogManager.latest_lsn
    last_saved_lsn, \* LogManager.last_saved_lsn
    appended,       \* history: the records handed to append, in order, with
                    \* the place append stored each one
    logop,          \* history: the last LogManager call and its argument
    \* --- one LogIterator (log/iterator.rs)
    it,             \* its fields, what it has yielded, and how it ended
    \* --- buffer manager (buffer/manager.rs), its slots (buffer/page.rs)
    \*     and the data file on disk
    pool,           \* BufferManager.buffer_pool: slot -> BufferPage fields
    num_available,  \* BufferManager.num_available (usize, see DecAvailable)
    datadisk,       \* the data file: sequence of blocks
    datacur,        \* the position of the data file's open file description
    slot_mutex,     \* owner of each slot's Mutex (0: unlocked)
    poisoned,       \* the mutexes a panicking thread held
    overflow_checks,\* the build: TRUE panics on integer overflow, FALSE wraps
    th,             \* each thread's place in pin / flush_all, and its locals
    handles,        \* history: handles pin returned and unpin has not taken
    \* --- one LockTable shared by threads (tx/concurrency/lock_table.rs)
    locks,          \* LockTable.locks: block -> i32, for the blocks with an entry
    lt,             \* each thread's place in slock / x_lock
    held,           \* history: the grant each thread holds on each block
    usage,          \* history: how the callers have used the table so far
    \* --- one ConcurrencyManager per transaction
    \*     (tx/concurrency/concurrency_manager.rs)
    cm_locks,       \* ConcurrencyManager.locks: block -> "S" / "X"
    cm_table,       \* ConcurrencyManager.lock_table: that manager's LockTable.locks
    cm,             \* each transaction's place in its manager's calls
    \* --- threads that call the FileManager directly (file/manager.rs)
    fio             \* each thread's place in read / write, and its page

logVars == <<logdisk, logcur, logpage, current_blk, latest_lsn, last_saved_lsn,
             appended, logop>>
itVars == <<it>>
fileVars == <<fio>>
bufVars == <<pool, num_available, datadisk, datacur, slot_mutex, poisoned,
             overflow_checks, th, handles>>
ltVars == <<locks, lt, held, usage>>
cmVars == <<cm_locks, cm_table, cm>>
lockVars == <<locks, lt, held, usage, cm_locks, cm_table, cm>>
nonLockVars == <<logdisk, logcur, logpage, current_blk, latest_lsn,
                 last_saved_lsn, appended, logop, it,
                 pool, num_available, datadisk, datacur, slot_mutex, poisoned,
                 overflow_checks, th, handles, fio>>
nonBufVars == <<it, locks, lt, held, usage, cm_locks, cm_table, cm, fio>>
vars == <<logdisk, logcur, logpage, current_blk, latest_lsn, last_saved_lsn,
          appended, logop, it,
          pool, num_available, datadisk, datacur, slot_mutex, poisoned,
          overflow_checks, th, handles,
          locks, lt, held, usage, cm_locks, cm_table, cm, fio>>

\* ------------------------------------------------------------ file/page.rs

Zeros(n) == [i \in 1..n |-> 0]

\* Page::new(block_size)
PageNew(n) == Zeros(n)

\* i32::to_be_bytes for the non-negative values the model writes
to_be_bytes(v) ==
    << (v \div 16777216) % 256, (v \div 65536) % 256, (v \div 256) % 256, v % 256 >>

\* i32::from_be_bytes: two's complement, the first byte carries the sign
from_be_bytes(b) ==
    (IF b[1] >= 128 THEN b[1] - 256 ELSE b[1]) * 16777216
        + b[2] * 65536 + b[3] * 256 + b[4]

\* Page::get_int(offset); the slice offset..offset+4 must lie in the buffer
get_int_ok(p, o) == o >= 0 /\ o + 4 <= Len(p)
get_int(p, o) == from_be_bytes(SubSeq(p, o + 1, o + 4))

\* Page::set_int(offset, value)
set_int(p, o, v) ==
    [i \in 1..Len(p) |-> IF i > o /\ i <= o + 4 THEN to_be_bytes(v)[i - o] ELSE p[i]]

\* Page::get_bytes(offset): the length prefix, then that many bytes.
\* The slices panic when they leave the buffer (a negative length becomes a
\* huge usize).
get_bytes_ok(p, o) ==
    /\ get_int_ok(p, o)
    /\ get_int(p, o) >= 0
    /\ get_int(p, o) <= Len(p) - (o + 4)
get_bytes(p, o) == SubSeq(p, o + 4 + 1, o + 4 + get_int(p, o))

\* Page::set_bytes(offset, bytes)
set_bytes(p, o, bytes) ==
    LET q == set_int(p, o, Len(bytes))
    IN  [i \in 1..Len(q) |->
            IF i > o + 4 /\ i <= o + 4 + Len(bytes) THEN bytes[i - (o + 4)] ELSE q[i]]

\* str::as_bytes: the UTF-8 encoding of a string, given as the sequence of
\* its code points (below 65536)
Utf8Char(c) ==
    IF c < 128 THEN << c >>
    ELSE IF c < 2048 THEN << 192 + (c \div 64), 128 + (c % 64) >>
    ELSE << 224 + (c \div 4096), 128 + ((c \div 64) % 64), 128 + (c % 64) >>

RECURSIVE as_bytes(_)
as_bytes(str) ==
    IF str = << >> THEN << >> ELSE Utf8Char(Head(str)) \o as_bytes(Tail(str))

\* String::from_utf8: the code points, or an error on bytes that are not
\* well-formed UTF-8 (sequences of up to three bytes)
IsCont(b) == b >= 128 /\ b <= 191

RECURSIVE from_utf8(_)
from_utf8(b) ==
    IF b = << >> THEN [ok |-> TRUE, str |-> << >>]
    ELSE LET h == b[1]
             n == IF h < 128 THEN 1
                  ELSE IF h >= 194 /\ h <= 223 /\ Len(b) >= 2 /\ IsCont(b[2])
                  THEN 2
                  ELSE IF /\ h >= 224 /\ h <= 239 /\ Len(b) >= 3
                          /\ IsCont(b[2]) /\ IsCont(b[3])
                          /\ (h = 224 => b[2] >= 160)
                          /\ (h = 237 => b[2] <= 159)
                  THEN 3
                  ELSE 0
             c == IF n = 1 THEN h
                  ELSE IF n = 2 THEN (h - 192) * 64 + (b[2] - 128)
                  ELSE (h - 224) * 4096 + (b[2] - 128) * 64 + (b[3] - 128)
             rest == IF n = 0 THEN [ok |-> FALSE, str |-> << >>]
                     ELSE from_utf8(SubSeq(b, n + 1, Len(b)))
         IN  IF n = 0 \/ ~ rest.ok
             THEN [ok |-> FALSE, str |-> << >>]
             ELSE [ok |-> TRUE, str |-> << c >> \o rest.str]

\* Page::get_string(offset): String::from_utf8(bytes).unwrap_or_default()
get_string(p, o) ==
    IF from_utf8(get_bytes(p, o)).ok THEN from_utf8(get_bytes(p, o)).str
    ELSE << >>

\* Page::set_string(offset, s)
set_string(p, o, str) == set_bytes(p, o, as_bytes(str))

\* --------------------------------------------------------- file/manager.rs

\* FileManager::length(filename): file size / block_size
FmLength(file) == Len(file)

\* FileManager::read(block, page): fails (read_exact) past the end of file
FmReadOk(file, n) == n >= 0 /\ n < Len(file)
FmRead(file, n) == file[n + 1]

\* FileManager::write(block, page): seek and write_all; a write past the end
\* of the file extends it, the skipped blocks reading as zeros
FmWrite(file, n, page) ==
    [i \in 1..(IF n + 1 > Len(file) THEN n + 1 ELSE Len(file)) |->
        IF i = n + 1 THEN page
        ELSE IF i <= Len(file) THEN file[i] ELSE Zeros(Len(page))]

\* FileManager::append(filename): block_size zero bytes at the end of file
FmAppend(file) == Append(file, Zeros(BlockSize))

\* ---------------------------------------------------------- log/manager.rs

\* LogManager::append_new_block: the page keeps its old bytes, only the
\* boundary field is reset
AppendNewBlockPage(page) == set_int(page, 0, BlockSize)
AppendNewBlockDisk(file, page) ==
    FmWrite(FmAppend(file), FmLength(file), AppendNewBlockPage(page))

\* LogManager::flush_internal
FlushInternalDisk == FmWrite(logdisk, current_blk, logpage)

\* the record bytes of the model's n-th append: n repeated len times
Payload(n, len) == [i \in 1..len |-> n]

\* lengths for which append returns: a longer record makes recpos negative
\* and set_bytes panics
RecLens == {1, 3, BlockSize - 8, BlockSize - 7, BlockSize - 4}

\* LogManager::new on an empty log file
LogInit ==
    /\ logpage = AppendNewBlockPage(PageNew(BlockSize))
    /\ logdisk = AppendNewBlockDisk(<< >>, PageNew(BlockSize))
    /\ logcur = 1
    /\ current_blk = 0
    /\ latest_lsn = 0
    /\ last_saved_lsn = 0
    /\ appended = << >>
    /\ logop = [op |-> "new", arg |-> 0]

\* an increment that skips a number
NextLsnSkips(lsn) == lsn + 2

\* LogManager::append: `self.latest_lsn += 1`, the LSN it returns
NextLsn(lsn) == lsn + 1

\* LogManager::append(logrec)
LogAppend(len) ==
    LET logrec == Payload(latest_lsn + 1, len)
        boundary == get_int(logpage, 0)
        bytes_needed == len + INT_SIZE
        rollover == boundary - bytes_needed < INT_SIZE
        page0 == IF rollover THEN AppendNewBlockPage(logpage) ELSE logpage
        disk0 == IF rollover
                 THEN AppendNewBlockDisk(FlushInternalDisk, logpage)
                 ELSE logdisk
        blk == IF rollover THEN FmLength(FlushInternalDisk) ELSE current_blk
        recpos == get_int(page0, 0) - bytes_needed
        page1 == set_int(set_bytes(page0, recpos, logrec), 0, recpos)
    IN  /\ recpos >= 0
        /\ logpage' = page1
        /\ logdisk' = disk0
        /\ logcur' = IF rollover THEN blk + 1 ELSE logcur
        /\ current_blk' = blk
        /\ last_saved_lsn' = IF rollover THEN latest_lsn ELSE last_saved_lsn
        /\ latest_lsn' = NextLsn(latest_lsn)
        /\ appended' = Append(appended,
                [rec |-> logrec, blk |-> blk, pos |-> recpos,
                 img |-> SubSeq(page1, recpos + 1, recpos + bytes_needed)])
        /\ logop' = [op |-> "append", arg |-> NextLsn(latest_lsn)]

\* the records of the history that a flush_internal has written to the file:
\* those the manager found when it was made, and of its own the first
\* last_saved_lsn
FlushedCount == Len(appended) - latest_lsn + last_saved_lsn

\* LogManager::new on a log file that has blocks, the earlier manager being
\* gone: the tail page is read from the last block and both LSN counters
\* start at 0. The history keeps the records that had reached the file.
LogReopen ==
    /\ FmLength(logdisk) > 0
    /\ logpage' = FmRead(logdisk, FmLength(logdisk) - 1)
    /\ current_blk' = FmLength(logdisk) - 1
    /\ logcur' = FmLength(logdisk)
    /\ latest_lsn' = 0
    /\ last_saved_lsn' = 0
    /\ appended' = SubSeq(appended, 1, FlushedCount)
    /\ logop' = [op |-> "reopen", arg |-> FlushedCount]
    /\ UNCHANGED logdisk

\* LogManager::append returning Err from its rollover. step tells which call
\* failed: 1 the fm.write of flush_internal, 2 the fm.append of
\* append_new_block, 3 the fm.write of append_new_block; done tells whether
\* the failing call had changed the file before it failed (write_all done,
\* sync_data failed). Every `?` returns at once, so what ran before the
\* failing call stays done.
LogAppendFails(len, step, done) ==
    LET boundary == get_int(logpage, 0)
        bytes_needed == len + INT_SIZE
        blk == FmLength(FlushInternalDisk)
        grown == FmAppend(FlushInternalDisk)
    IN  /\ boundary - bytes_needed < INT_SIZE
        /\ logdisk' =
              IF step = 1 THEN (IF done THEN FlushInternalDisk ELSE logdisk)
              ELSE IF step = 2 THEN (IF done THEN grown ELSE FlushInternalDisk)
              ELSE IF done THEN FmWrite(grown, blk, AppendNewBlockPage(logpage))
              ELSE grown
        /\ logcur' =
              IF step = 1 THEN (IF done THEN current_blk + 1 ELSE logcur)
              ELSE IF step = 2 THEN (IF done THEN blk + 1 ELSE current_blk + 1)
              ELSE blk + 1
        /\ last_saved_lsn' = IF step = 1 THEN last_saved_lsn ELSE latest_lsn
        /\ logpage' = IF step = 3 THEN AppendNewBlockPage(logpage) ELSE logpage
        /\ logop' = [op |-> "append_err", arg |-> step]
        /\ UNCHANGED <<current_blk, latest_lsn, appended>>

\* LogManager::flush with the comparison turned around
LogFlushNeededInverted(lsn) == lsn < last_saved_lsn

\* LogManager::flush(lsn)
LogFlushNeeded(lsn) == lsn >= last_saved_lsn

LogFlush(lsn) ==
    /\ IF LogFlushNeeded(lsn)
       THEN /\ logdisk' = FlushInternalDisk
            /\ logcur' = current_blk + 1
            /\ last_saved_lsn' = latest_lsn
       ELSE UNCHANGED <<logdisk, logcur, last_saved_lsn>>
    /\ UNCHANGED <<logpage, current_blk, latest_lsn, appended>>

\* --------------------------------------------------------- log/iterator.rs

\* LogIterator::move_to_block for block n when read_exact runs with the
\* file position at block `at`: start at the boundary of the page read
MoveToBlockAt(file, n, at) ==
    [block |-> n, page |-> FmRead(file, at),
     current_pos |-> get_int(FmRead(file, at), 0),
     boundary |-> get_int(FmRead(file, at), 0)]

\* LogIterator::move_to_block: read the block, start at its boundary
MoveToBlock(file, n) == MoveToBlockAt(file, n, n)

\* LogIterator::next has to move to the previous block first
IterMustMove(i) == i.current_pos >= BlockSize /\ i.block # 0

\* LogIterator::next after its `if`: get_bytes at current_pos, then step
\* over the record; "panic" when get_bytes slices outside the page
IterTakeRecord(j) ==
    IF ~ get_bytes_ok(j.page, j.current_pos)
    THEN [fields |-> j, ret |-> "panic", rec |-> << >>]
    ELSE [fields |->
             [j EXCEPT !.current_pos =
                 j.current_pos + INT_SIZE + Len(get_bytes(j.page, j.current_pos))],
          ret |-> "some", rec |-> get_bytes(j.page, j.current_pos)]

\* LogIterator::next. The result is the iterator's new fields with
\* ret = "some" (and the record in rec), "none", or "panic" when get_bytes
\* slices outside the page.
IterStep(file, i) ==
    IF i.current_pos >= BlockSize /\ i.block = 0
    THEN [fields |-> i, ret |-> "none", rec |-> << >>]
    ELSE IterTakeRecord(IF IterMustMove(i)
                        THEN MoveToBlock(file, i.block - 1) ELSE i)

\* the reverse scan of a log file alone: LogIterator::new on its last block,
\* then next until it ends; "panic" when a next panics
RECURSIVE ScanFrom(_, _, _, _)
ScanFrom(file, i, out, fuel) ==
    LET s == IterStep(file, i)
    IN  IF fuel = 0 \/ s.ret = "panic" THEN [recs |-> out, end |-> "panic"]
        ELSE IF s.ret = "none" THEN [recs |-> out, end |-> "none"]
        ELSE ScanFrom(file, s.fields, Append(out, s.rec), fuel - 1)

DiskScan(file) ==
    ScanFrom(file, MoveToBlock(file, FmLength(file) - 1), << >>,
             Len(file) * BlockSize)

NoIterator ==
    [state |-> "none", fields |-> [block |-> 0, page |-> << >>,
                                   current_pos |-> 0, boundary |-> 0],
     out |-> << >>, snap |-> << >>, own |-> 0]

\* LogManager::iter: flush the tail page, then LogIterator::new(current_blk)
LogIter ==
    /\ logdisk' = FlushInternalDisk
    /\ logcur' = current_blk + 1
    /\ last_saved_lsn' = latest_lsn
    /\ it' = [state |-> "open",
              fields |-> MoveToBlock(FlushInternalDisk, current_blk),
              out |-> << >>,
              snap |-> [k \in 1..Len(appended) |-> appended[k].rec],
              own |-> latest_lsn]
    /\ logop' = [op |-> "iter", arg |-> 0]
    /\ UNCHANGED <<logpage, current_blk, latest_lsn, appended>>

\* the iterator after a call of next with result s
IterAfter(s) ==
    [it EXCEPT
        !.fields = s.fields,
        !.state = IF s.ret = "some" THEN "open"
                  ELSE IF s.ret = "none" THEN "ended" ELSE "panicked",
        !.out = IF s.ret = "some" THEN Append(@, s.rec) ELSE @]

\* one call of LogIterator::next that stays in the iterator's page
IterNext ==
    /\ it.state = "open"
    /\ ~ IterMustMove(it.fields)
    /\ it' = IterAfter(IterStep(logdisk, it.fields))
    /\ UNCHANGED logVars

\* a call of LogIterator::next that moves to the previous block: the
\* FileManager::read of move_to_block seeks to that block. The iterator
\* holds no lock of the log manager, and the position belongs to the one
\* file every handle of the log file is cloned from.
IterSeek ==
    /\ it.state = "open"
    /\ IterMustMove(it.fields)
    /\ it' = [it EXCEPT !.state = "seek"]
    /\ logcur' = it.fields.block - 1
    /\ UNCHANGED <<logdisk, logpage, current_blk, latest_lsn, last_saved_lsn,
                   appended, logop>>

\* the rest of that call: read_exact at the position the file has by now
\* (past the end of the file it fails and next returns Some(Err)), then
\* the record at the new page's boundary
IterRead ==
    /\ it.state = "seek"
    /\ IF FmReadOk(logdisk, logcur)
       THEN /\ it' = IterAfter(IterTakeRecord(
                         MoveToBlockAt(logdisk, it.fields.block - 1, logcur)))
            /\ logcur' = logcur + 1
       ELSE /\ it' = [it EXCEPT !.state = "failed"]
            /\ UNCHANGED logcur
    /\ UNCHANGED <<logdisk, logpage, current_blk, latest_lsn, last_saved_lsn,
                   appended, logop>>

\* ------------------------------------------------------------ log: system

Reverse(s) == [k \in 1..Len(s) |-> s[Len(s) + 1 - k]]

AppendAny ==
    /\ latest_lsn < MaxAppends
    /\ \E len \in RecLens : LogAppend(len)
    /\ UNCHANGED itVars
    /\ UNCHANGED bufVars
    /\ UNCHANGED lockVars /\ UNCHANGED fileVars

FlushAny ==
    /\ \E lsn \in 0..MaxAppends :
          LogFlush(lsn) /\ logop' = [op |-> "flush", arg |-> lsn]
    /\ UNCHANGED itVars
    /\ UNCHANGED bufVars
    /\ UNCHANGED lockVars /\ UNCHANGED fileVars

\* a new LogManager is made on the file of the first one, which has appended
ReopenAny ==
    /\ latest_lsn > 0
    /\ Len(appended) = latest_lsn
    /\ FmLength(logdisk) < MaxLogBlocks
    /\ LogReopen
    /\ UNCHANGED itVars
    /\ UNCHANGED bufVars
    /\ UNCHANGED lockVars /\ UNCHANGED fileVars

\* an append whose rollover meets an I/O error
AppendFailAny ==
    /\ FmLength(logdisk) < MaxLogBlocks
    /\ \E len \in RecLens, step \in 1..3, done \in BOOLEAN :
          LogAppendFails(len, step, done)
    /\ UNCHANGED itVars
    /\ UNCHANGED bufVars
    /\ UNCHANGED lockVars /\ UNCHANGED fileVars

IterAny == LogIter /\ UNCHANGED bufVars /\ UNCHANGED lockVars /\ UNCHANGED fileVars

IterNextAny == IterNext /\ UNCHANGED bufVars /\ UNCHANGED lockVars /\ UNCHANGED fileVars

IterSeekAny == IterSeek /\ UNCHANGED bufVars /\ UNCHANGED lockVars /\ UNCHANGED fileVars

IterReadAny == IterRead /\ UNCHANGED bufVars /\ UNCHANGED lockVars /\ UNCHANGED fileVars


\* --------------------------------------------------------------- index sets

Slots == 1..NumBufs
Threads == 1..NumThreads
Blocks == 0..(NumBlocks - 1)
\* the block numbers a caller can name in pin: those of a full data file and
\* the first one past its end
PinBlocks == 0..NumBlocks
Txns == 0..MaxTxn
\* Option::None of a BlockId
NoBlock == -1

\* ------------------------------------------------ tx/concurrency/lock_table.rs

\* threads calling the shared lock table
LockThreads == Threads

\* LockTable::get_lock_value: the entry, or 0 when there is none
get_lock_value(m, blk) == IF blk \in DOMAIN m THEN m[blk] ELSE 0

\* LockTable::has_xlock
has_xlock(m, blk) == get_lock_value(m, blk) < 0

\* has_other_s_locks with the comparison off by one
HasOtherSLocksOffByOne(m, blk) == get_lock_value(m, blk) > 2

\* LockTable::has_other_s_locks
has_other_s_locks(m, blk) == get_lock_value(m, blk) > 1

\* HashMap::insert and HashMap::remove
MapInsert(m, k, v) == [x \in DOMAIN m \cup {k} |-> IF x = k THEN v ELSE m[x]]
MapRemove(m, k) == [x \in DOMAIN m \ {k} |-> m[x]]

\* LockTable::slock, once the wait loop is left without an exclusive lock
SlockGrant(m, blk) == MapInsert(m, blk, get_lock_value(m, blk) + 1)

\* LockTable::x_lock, once the wait loop is left without other shared locks
XlockGrant(m, blk) == MapInsert(m, blk, -1)

\* slock without the check that follows its wait loop
SlockAlwaysGrants(m, blk) == SlockGrant(m, blk)

\* LockTable::slock after its wait loop: Err(LockAbortError) with the map
\* untouched while an exclusive lock is there, else the shared count grows
SlockAfterLoop(m, blk) == IF has_xlock(m, blk) THEN m ELSE SlockGrant(m, blk)

\* LockTable::x_lock after its wait loop: Err(LockAbortError) with the map
\* untouched while other shared locks are there, else -1 is written
XlockAfterLoop(m, blk) ==
    IF has_other_s_locks(m, blk) THEN m ELSE XlockGrant(m, blk)

\* unlock that decrements whatever the value is
UnlockAlwaysDecrements(m, blk) == MapInsert(m, blk, get_lock_value(m, blk) - 1)

\* LockTable::unlock
UnlockMap(m, blk) ==
    IF get_lock_value(m, blk) > 1
    THEN MapInsert(m, blk, get_lock_value(m, blk) - 1)
    ELSE MapRemove(m, blk)

\* a thread outside slock and x_lock; aborted tells whether its last call
\* returned Err(LockAbortError)
LtIdle(aborted) ==
    [pc |-> "idle", blk |-> NoBlock, aborted |-> aborted, notified |-> FALSE]

\* a thread inside cond_var.wait_timeout; notified tells whether a
\* notify_all has reached it since it began to wait
LtWait(pc, blk) ==
    [pc |-> pc, blk |-> blk, aborted |-> FALSE, notified |-> FALSE]

\* a wait that never counts as too long
NeverWaitingTooLong(w) == FALSE

\* LockTable::waiting_too_long: the clock is not part of the state; every
\* wait_timeout returns after at most max_time, so a thread inside the wait
\* loop can at any moment be one whose elapsed time exceeds max_time
waiting_too_long(w) == w.pc \in {"s_wait", "x_wait"}

\* LockTable::unlock calls notify_all only in the branch that removes the
\* entry
UnlockNotifies(m, blk) == ~ (get_lock_value(m, blk) > 1)

\* Condvar::notify_all: every thread inside wait_timeout is notified
NotifyAll(w) ==
    [u \in LockThreads |->
        IF w[u].pc # "idle" THEN [w[u] EXCEPT !.notified = TRUE] ELSE w[u]]

\* LockTable::new
LockInit ==
    /\ locks = << >>
    /\ lt = [t \in LockThreads |-> LtIdle(FALSE)]
    /\ held = [t \in LockThreads |-> [b \in Blocks |-> "N"]]
    /\ usage = "protocol"

\* how the callers use the table: "protocol" while every call follows the
\* concurrency manager (slock only without a lock, x_lock only by a shared
\* holder, unlock only by a holder), "direct" once some x_lock was called by
\* a thread holding no lock, "stray" once some unlock came from a non-holder
UsageAfter(kind) ==
    IF usage = "stray" \/ kind = "stray" THEN "stray"
    ELSE IF usage = "direct" \/ kind = "direct" THEN "direct"
    ELSE "protocol"

\* slock(blk) is called: under the mutex, the lock is granted at once when
\* no exclusive lock exists, otherwise the thread waits on the condvar
SlockCall(t, blk) ==
    /\ lt[t].pc = "idle"
    /\ held[t][blk] = "N"
    /\ IF has_xlock(locks, blk)
       THEN /\ lt' = [lt EXCEPT ![t] = LtWait("s_wait", blk)]
            /\ UNCHANGED <<locks, held>>
       ELSE /\ locks' = SlockAfterLoop(locks, blk)
            /\ held' = [held EXCEPT ![t][blk] = "S"]
            /\ lt' = [lt EXCEPT ![t] = LtIdle(FALSE)]
    /\ UNCHANGED usage
    /\ UNCHANGED <<nonLockVars, cmVars>>

\* a waiting slock wakes (notify_all, the wait's timeout, or spuriously) and
\* finds no exclusive lock
SlockWake(t) ==
    /\ lt[t].pc = "s_wait"
    /\ ~ has_xlock(locks, lt[t].blk)
    /\ locks' = SlockAfterLoop(locks, lt[t].blk)
    /\ held' = [held EXCEPT ![t][lt[t].blk] = "S"]
    /\ lt' = [lt EXCEPT ![t] = LtIdle(FALSE)]
    /\ UNCHANGED usage
    /\ UNCHANGED <<nonLockVars, cmVars>>

\* a waiting slock has waited longer than max_time and the exclusive lock
\* is still there: Err(LockAbortError)
SlockAbort(t) ==
    /\ lt[t].pc = "s_wait"
    /\ has_xlock(locks, lt[t].blk)
    /\ waiting_too_long(lt[t])
    /\ locks' = SlockAfterLoop(locks, lt[t].blk)
    /\ lt' = [lt EXCEPT ![t] = LtIdle(TRUE)]
    /\ UNCHANGED <<held, usage>>
    /\ UNCHANGED <<nonLockVars, cmVars>>

\* the grant x_lock leaves in the history: an upgrade of the caller's shared
\* lock, or a lock taken by a caller that held nothing
XKind(t, blk) == IF held[t][blk] = "S" THEN "X" ELSE "XD"

\* x_lock(blk) is called
XlockCall(t, blk) ==
    /\ lt[t].pc = "idle"
    /\ held[t][blk] \in {"N", "S"}
    /\ IF has_other_s_locks(locks, blk)
       THEN /\ lt' = [lt EXCEPT ![t] = LtWait("x_wait", blk)]
            /\ UNCHANGED <<locks, held>>
       ELSE /\ locks' = XlockAfterLoop(locks, blk)
            /\ held' = [held EXCEPT ![t][blk] = XKind(t, blk)]
            /\ lt' = [lt EXCEPT ![t] = LtIdle(FALSE)]
    /\ usage' = UsageAfter(IF held[t][blk] = "N" THEN "direct" ELSE "protocol")
    /\ UNCHANGED <<nonLockVars, cmVars>>

\* a waiting x_lock wakes and finds no other shared lock
XlockWake(t) ==
    /\ lt[t].pc = "x_wait"
    /\ ~ has_other_s_locks(locks, lt[t].blk)
    /\ locks' = XlockAfterLoop(locks, lt[t].blk)
    /\ held' = [held EXCEPT ![t][lt[t].blk] = XKind(t, lt[t].blk)]
    /\ lt' = [lt EXCEPT ![t] = LtIdle(FALSE)]
    /\ UNCHANGED usage
    /\ UNCHANGED <<nonLockVars, cmVars>>

\* a waiting x_lock has waited longer than max_time and other shared locks
\* are still there: Err(LockAbortError)
XlockAbort(t) ==
    /\ lt[t].pc = "x_wait"
    /\ has_other_s_locks(locks, lt[t].blk)
    /\ waiting_too_long(lt[t])
    /\ locks' = XlockAfterLoop(locks, lt[t].blk)
    /\ lt' = [lt EXCEPT ![t] = LtIdle(TRUE)]
    /\ UNCHANGED <<held, usage>>
    /\ UNCHANGED <<nonLockVars, cmVars>>

\* unlock(blk)
Unlock(t, blk) ==
    /\ lt[t].pc = "idle"
    /\ locks' = UnlockMap(locks, blk)
    /\ held' = [held EXCEPT ![t][blk] = "N"]
    /\ usage' = UsageAfter(IF held[t][blk] = "N" THEN "stray" ELSE "protocol")
    /\ lt' = IF UnlockNotifies(locks, blk)
             THEN NotifyAll([lt EXCEPT ![t] = LtIdle(FALSE)])
             ELSE [lt EXCEPT ![t] = LtIdle(FALSE)]
    /\ UNCHANGED <<nonLockVars, cmVars>>

LockStep(t) ==
    \/ \E blk \in Blocks : SlockCall(t, blk)
    \/ SlockWake(t)
    \/ SlockAbort(t)
    \/ \E blk \in Blocks : XlockCall(t, blk)
    \/ XlockWake(t)
    \/ XlockAbort(t)
    \/ \E blk \in Blocks : Unlock(t, blk)

\* ----------------------------------------- tx/concurrency/concurrency_manager.rs

\* a transaction's place in its manager: pc is where its thread stands, op
\* and blk are its latest call, had tells whether its map had an entry for
\* blk when the call began, alone whether no other transaction had one
CmCall(pc, op, blk, had, alone) ==
    [pc |-> pc, op |-> op, blk |-> blk, had |-> had, alone |-> alone]

\* a test of the manager's map that finds nothing
CmHoldsNothing(m, blk) == FALSE

\* `locks.get(&blk)` is some entry
CmHolds(m, blk) == blk \in DOMAIN m

\* ConcurrencyManager::new: an empty map and a LockTable of its own
CmInit ==
    /\ cm_locks = [c \in Txns |-> << >>]
    /\ cm_table = [c \in Txns |-> << >>]
    /\ cm = [c \in Txns |-> CmCall("idle", "new", NoBlock, FALSE, FALSE)]

\* ConcurrencyManager::slock(blk): under self.locks, ask the manager's own
\* lock table when the map has no entry; that table holds no exclusive lock
\* (see CmXlockRelock), so LockTable::slock returns at once
CmSlock(c, blk) ==
    /\ cm[c].pc = "idle"
    /\ ~ has_xlock(cm_table[c], blk)
    /\ IF ~ CmHolds(cm_locks[c], blk)
       THEN /\ cm_table' = [cm_table EXCEPT ![c] = SlockGrant(@, blk)]
            /\ cm_locks' = [cm_locks EXCEPT ![c] = MapInsert(@, blk, "S")]
       ELSE UNCHANGED <<cm_locks, cm_table>>
    /\ cm' = [cm EXCEPT ![c] =
                 CmCall("idle", "slock", blk, blk \in DOMAIN cm_locks[c], FALSE)]
    /\ UNCHANGED <<nonLockVars, ltVars>>

\* no other transaction has the block in its map
Alone(c, blk) == \A d \in Txns \ {c} : blk \notin DOMAIN cm_locks[d]

\* ConcurrencyManager::xlock(blk), first statement: self.locks.lock()
CmXlockCall(c, blk) ==
    /\ cm[c].pc = "idle"
    /\ cm' = [cm EXCEPT ![c] =
                 CmCall("xlock", "xlock", blk, blk \in DOMAIN cm_locks[c],
                        Alone(c, blk))]
    /\ UNCHANGED <<cm_locks, cm_table>>
    /\ UNCHANGED <<nonLockVars, ltVars>>

\* what std::sync::Mutex::lock does in the thread that already holds the
\* guard: it never returns, it deadlocks or panics
RelockOutcomes == {"deadlocked", "panicked"}

\* ConcurrencyManager::xlock(blk), second statement: has_xlock locks
\* self.locks, which xlock still holds
CmXlockRelock(c) ==
    /\ cm[c].pc = "xlock"
    /\ \E o \in RelockOutcomes : cm' = [cm EXCEPT ![c].pc = o]
    /\ UNCHANGED <<cm_locks, cm_table>>
    /\ UNCHANGED <<nonLockVars, ltVars>>

\* the map after release: lock_table.unlock for every key, in any order
RECURSIVE UnlockAll(_, _)
UnlockAll(m, keys) ==
    IF keys = {} THEN m
    ELSE LET k == CHOOSE x \in keys : TRUE
         IN  UnlockAll(UnlockMap(m, k), keys \ {k})

\* ConcurrencyManager::release
CmRelease(c) ==
    /\ cm[c].pc = "idle"
    /\ cm_table' = [cm_table EXCEPT ![c] = UnlockAll(@, DOMAIN cm_locks[c])]
    /\ cm_locks' = [cm_locks EXCEPT ![c] = << >>]
    /\ cm' = [cm EXCEPT ![c] = CmCall("idle", "release", NoBlock, FALSE, FALSE)]
    /\ UNCHANGED <<nonLockVars, ltVars>>

CmStep(c) ==
    \/ \E blk \in Blocks : CmSlock(c, blk)
    \/ \E blk \in Blocks : CmXlockCall(c, blk)
    \/ CmXlockRelock(c)
    \/ CmRelease(c)

\* ----------------------------------------------------------- buffer/page.rs


\* BufferPage::new
\* (loaded is history: the last read of the slot's block into contents
\* succeeded)
BufferPageNew ==
    [contents |-> PageNew(BlockSize), block |-> NoBlock, pins |-> 0,
     txnum |-> -1, lsn |-> -1, loaded |-> FALSE]

\* is_pinned with the comparison off by one
IsPinnedOffByOne(b) == b.pins > 1

\* BufferPage::is_pinned
is_pinned(b) == b.pins > 0

\* BufferPage::set_modified(txnum, lsn)
set_modified(b, txnum, lsn) ==
    [b EXCEPT !.txnum = txnum, !.lsn = IF lsn >= 0 THEN lsn ELSE @]

\* BufferPage::pin
BufferPagePin(b) == [b EXCEPT !.pins = @ + 1]

\* BufferPage::unpin
BufferPageUnpin(b) == [b EXCEPT !.pins = IF @ > 0 THEN @ - 1 ELSE @]

\* BufferPage::flush is dirty-guarded: it acts only when txnum >= 0
FlushIsDirty(b) == b.txnum >= 0

\* BufferPage::flush, first step: self.lm.lock().unwrap().flush(self.lsn)
FlushForceLog(b) == LogFlush(b.lsn)

\* BufferPage::flush, second step: FileManager::write on the slot's block
\* (if any), which seeks to the block and then writes the page at the
\* position the file has by then; the slot is marked clean
FlushSeek(b) == IF b.block # NoBlock THEN b.block ELSE datacur
FlushWriteDisk(b) ==
    IF b.block # NoBlock THEN FmWrite(datadisk, datacur, b.contents) ELSE datadisk
FlushWriteCur(b) == IF b.block # NoBlock THEN datacur + 1 ELSE datacur
FlushWritePage(b) == [b EXCEPT !.txnum = -1]

\* BufferPage::assign_to_block after its flush: the block is set before the
\* read; a failed read (past the end of file) returns early and leaves the
\* page bytes as they were
AssignReadOk == FmReadOk(datadisk, datacur)
AssignRead(b, blk) ==
    IF AssignReadOk
    THEN [b EXCEPT !.block = blk, !.contents = FmRead(datadisk, datacur),
                   !.pins = 0, !.loaded = TRUE]
    ELSE [b EXCEPT !.block = blk, !.loaded = FALSE]

\* -------------------------------------------------------- buffer/manager.rs

\* the Mutex around num_available, among the slots' mutexes 1..NumBufs
AvailMutex == 0

\* a thread outside every call (entry, written and evicted are history of
\* flush_all: each slot's modifying_txn when the call began, the slots whose
\* page the call has written to its block, and the slots whose page another
\* thread's assign_to_block has written meanwhile)
Idle ==
    [pc |-> "idle", blk |-> NoBlock, i |-> 0, slot |-> 0, tx |-> -1,
     entry |-> [s \in Slots |-> -1], written |-> {}, evicted |-> {}]

\* the thread is inside flush_all
InFlushAll(r) ==
    r.pc \in {"fa_scan", "fa_force", "fa_wseek", "fa_write", "fa_ret"}

\* a flush_all in progress sees the page of slot s written to its block by
\* an eviction
NoteEvicted(r, s) ==
    IF InFlushAll(r) /\ datacur = pool[s].block
    THEN [r EXCEPT !.evicted = @ \cup {s}]
    ELSE r

\* BufferManager::new_with_timeout
BufInit ==
    /\ pool = [s \in Slots |-> BufferPageNew]
    /\ num_available = NumBufs
    /\ slot_mutex = [s \in Slots |-> 0]
    /\ poisoned = {}
    /\ th = [t \in Threads |-> Idle]
    /\ handles = [t \in Threads |-> [k \in Slots \X PinBlocks |-> 0]]

\* BufferManager::available. num_available is a usize; the model keeps the
\* signed representative of its value modulo 2^64, so a negative number n
\* stands for 2^64 + n (the counter wrapped below zero).
available == num_available

\* `*num_available -= 1`: below zero the build either panics or wraps
DecOverflows == num_available = 0 /\ overflow_checks
\* `*num_available += 1`: only a wrapped counter can overflow
IncOverflows == num_available = -1 /\ overflow_checks

\* a thread that panics holding the guards in `guards` poisons those mutexes
\* and releases them as it unwinds
Panic(t, guards) ==
    /\ th' = [th EXCEPT ![t] = [@ EXCEPT !.pc = "panicked"]]
    /\ poisoned' = poisoned \cup guards
    /\ slot_mutex' = [s \in Slots |-> IF slot_mutex[s] = t THEN 0 ELSE slot_mutex[s]]

\* buff.lock().unwrap(): possible when no other thread holds the guard
CanLock(s) == slot_mutex[s] = 0

\* BufferManager::pin(block) is entered: the deadline starts
HandleCount(t) ==
    LET RECURSIVE Sum(_)
        Sum(K) == IF K = {} THEN 0
                  ELSE LET k == CHOOSE x \in K : TRUE
                       IN  handles[t][k] + Sum(K \ {k})
    IN  Sum(Slots \X PinBlocks)

PinCall(t, blk) ==
    /\ th[t].pc = "idle"
    /\ num_available > - MaxDrift
    /\ th' = [th EXCEPT ![t] = [Idle EXCEPT !.pc = "find", !.blk = blk, !.i = 1]]
    /\ UNCHANGED <<pool, num_available, datadisk, datacur, slot_mutex, poisoned,
                   overflow_checks, handles>>
    /\ UNCHANGED logVars
    /\ UNCHANGED nonBufVars

\* the comparison of find_existing_buffer's closure
HoldsBlock(b, blk) == b.block # NoBlock /\ b.block = blk

\* find_existing_buffer: one slot of the scan, under that slot's mutex
FindStep(t) ==
    LET s == th[t].i
    IN  /\ th[t].pc = "find"
        /\ CanLock(s)
        /\ IF s \in poisoned
           THEN Panic(t, {})
           ELSE /\ th' = [th EXCEPT ![t] =
                      IF HoldsBlock(pool[s], th[t].blk)
                      THEN [@ EXCEPT !.pc = "existing", !.slot = s]
                      ELSE IF s < NumBufs THEN [@ EXCEPT !.i = s + 1]
                      ELSE [@ EXCEPT !.pc = "choose", !.i = 1]]
                /\ UNCHANGED <<slot_mutex, poisoned>>
        /\ UNCHANGED <<pool, num_available, datadisk, datacur, overflow_checks, handles>>
        /\ UNCHANGED logVars
        /\ UNCHANGED nonBufVars

\* the handle try_to_pin returns, as pin hands it to the caller
GiveHandle(t, s) ==
    [handles EXCEPT ![t][<<s, th[t].blk>>] = @ + 1]

\* try_to_pin, the block is resident: under the slot's mutex, count the slot
\* as taken if it was unpinned, pin it and return it
PinExisting(t) ==
    LET s == th[t].slot
    IN  /\ th[t].pc = "existing"
        /\ CanLock(s)
        /\ IF s \in poisoned
           THEN Panic(t, {}) /\ UNCHANGED <<pool, num_available, handles>>
           ELSE IF ~ is_pinned(pool[s]) /\ (AvailMutex \in poisoned \/ DecOverflows)
           THEN Panic(t, {s, AvailMutex}) /\ UNCHANGED <<pool, num_available, handles>>
           ELSE /\ num_available' =
                      IF is_pinned(pool[s]) THEN num_available ELSE num_available - 1
                /\ pool' = [pool EXCEPT ![s] = BufferPagePin(@)]
                /\ handles' = GiveHandle(t, s)
                /\ th' = [th EXCEPT ![t] = Idle]
                /\ UNCHANGED <<slot_mutex, poisoned>>
        /\ UNCHANGED <<datadisk, datacur, overflow_checks>>
        /\ UNCHANGED logVars
        /\ UNCHANGED nonBufVars

\* choose_unpinned_buffer: one slot of the scan, under that slot's mutex;
\* with no unpinned slot try_to_pin returns Ok(None) and pin sleeps
ChooseStep(t) ==
    LET s == th[t].i
    IN  /\ th[t].pc = "choose"
        /\ CanLock(s)
        /\ IF s \in poisoned
           THEN Panic(t, {})
           ELSE /\ th' = [th EXCEPT ![t] =
                      IF ~ is_pinned(pool[s])
                      THEN [@ EXCEPT !.pc = "assign", !.slot = s]
                      ELSE IF s < NumBufs THEN [@ EXCEPT !.i = s + 1]
                      ELSE [@ EXCEPT !.pc = "sleep"]]
                /\ UNCHANGED <<slot_mutex, poisoned>>
        /\ UNCHANGED <<pool, num_available, datadisk, datacur, overflow_checks, handles>>
        /\ UNCHANGED logVars
        /\ UNCHANGED nonBufVars

\* try_to_pin takes the chosen slot's mutex and enters assign_to_block, whose
\* flush goes on to force the log only for a dirty slot
AssignLock(t) ==
    LET s == th[t].slot
    IN  /\ th[t].pc = "assign"
        /\ CanLock(s)
        /\ IF s \in poisoned
           THEN Panic(t, {})
           ELSE /\ slot_mutex' = [slot_mutex EXCEPT ![s] = t]
                /\ th' = [th EXCEPT ![t] =
                      [@ EXCEPT !.pc = IF FlushIsDirty(pool[s])
                                       THEN "assign_force" ELSE "assign_rseek"]]
                /\ UNCHANGED poisoned
        /\ UNCHANGED <<pool, num_available, datadisk, datacur, overflow_checks, handles>>
        /\ UNCHANGED logVars
        /\ UNCHANGED nonBufVars

\* BufferPage::flush inside assign_to_block: force the log up to the slot's lsn
AssignForce(t) ==
    /\ th[t].pc = "assign_force"
    /\ FlushForceLog(pool[th[t].slot])
    /\ UNCHANGED logop
    /\ th' = [th EXCEPT ![t] = [@ EXCEPT !.pc = "assign_wseek"]]
    /\ UNCHANGED <<pool, num_available, datadisk, datacur, slot_mutex, poisoned,
                   overflow_checks, handles>>
    /\ UNCHANGED nonBufVars

\* BufferPage::flush inside assign_to_block: FileManager::write seeks to
\* the slot's block
AssignWriteSeek(t) ==
    /\ th[t].pc = "assign_wseek"
    /\ datacur' = FlushSeek(pool[th[t].slot])
    /\ th' = [th EXCEPT ![t] = [@ EXCEPT !.pc = "assign_write"]]
    /\ UNCHANGED <<pool, num_available, datadisk, slot_mutex, poisoned,
                   overflow_checks, handles>>
    /\ UNCHANGED logVars
    /\ UNCHANGED nonBufVars

\* assign_to_block after its flush: FileManager::read seeks to the new block
AssignReadSeek(t) ==
    /\ th[t].pc = "assign_rseek"
    /\ datacur' = th[t].blk
    /\ th' = [th EXCEPT ![t] = [@ EXCEPT !.pc = "assign_read"]]
    /\ UNCHANGED <<pool, num_available, datadisk, slot_mutex, poisoned,
                   overflow_checks, handles>>
    /\ UNCHANGED logVars
    /\ UNCHANGED nonBufVars

\* BufferPage::flush inside assign_to_block: write_all at the position the
\* file has by now, mark the slot clean
AssignWrite(t) ==
    LET s == th[t].slot
    IN  /\ th[t].pc = "assign_write"
        /\ datadisk' = FlushWriteDisk(pool[s])
        /\ datacur' = FlushWriteCur(pool[s])
        /\ pool' = [pool EXCEPT ![s] = FlushWritePage(@)]
        /\ th' = [u \in Threads |->
                     IF u = t THEN [th[t] EXCEPT !.pc = "assign_rseek"]
                              ELSE NoteEvicted(th[u], s)]
        /\ UNCHANGED <<num_available, slot_mutex, poisoned, overflow_checks, handles>>
        /\ UNCHANGED logVars
        /\ UNCHANGED nonBufVars

\* the rest of assign_to_block and of try_to_pin: set the block, read it,
\* reset the pins, count the slot as taken, pin it, return it. A failed read
\* makes try_to_pin return Err, which pin answers by sleeping and retrying.
AssignFinish(t) ==
    LET s == th[t].slot
        blk == th[t].blk
    IN  /\ th[t].pc = "assign_read"
        /\ IF ~ AssignReadOk
           THEN /\ pool' = [pool EXCEPT ![s] = AssignRead(@, blk)]
                /\ slot_mutex' = [slot_mutex EXCEPT ![s] = 0]
                /\ th' = [th EXCEPT ![t] = [@ EXCEPT !.pc = "sleep"]]
                /\ UNCHANGED <<num_available, poisoned, handles>>
           ELSE IF AvailMutex \in poisoned \/ DecOverflows
           THEN /\ pool' = [pool EXCEPT ![s] = AssignRead(@, blk)]
                /\ Panic(t, {s, AvailMutex})
                /\ UNCHANGED <<num_available, handles>>
           ELSE /\ pool' = [pool EXCEPT ![s] = BufferPagePin(AssignRead(@, blk))]
                /\ num_available' = num_available - 1
                /\ slot_mutex' = [slot_mutex EXCEPT ![s] = 0]
                /\ handles' = GiveHandle(t, s)
                /\ th' = [th EXCEPT ![t] = Idle]
                /\ UNCHANGED poisoned
        /\ datacur' = IF AssignReadOk THEN datacur + 1 ELSE datacur
        /\ UNCHANGED <<datadisk, overflow_checks>>
        /\ UNCHANGED logVars
        /\ UNCHANGED nonBufVars

\* pin's loop after a try that gave no buffer: once the 10 ms sleep is over
\* either the deadline has not passed and try_to_pin runs again ...
PinRetry(t) ==
    /\ th[t].pc = "sleep"
    /\ th' = [th EXCEPT ![t] = [@ EXCEPT !.pc = "find", !.i = 1, !.slot = 0]]
    /\ UNCHANGED <<pool, num_available, datadisk, datacur, slot_mutex, poisoned,
                   overflow_checks, handles>>
    /\ UNCHANGED logVars
    /\ UNCHANGED nonBufVars

\* ... or it has, and pin returns Err(BufferError("... timeout"))
PinTimeout(t) ==
    /\ th[t].pc = "sleep"
    /\ th' = [th EXCEPT ![t] = Idle]
    /\ UNCHANGED <<pool, num_available, datadisk, datacur, slot_mutex, poisoned,
                   overflow_checks, handles>>
    /\ UNCHANGED logVars
    /\ UNCHANGED nonBufVars

\* no call on the buffer manager is in progress in another thread: what the
\* `&mut self` of unpin demands
Exclusive(t) == \A u \in Threads \ {t} : th[u].pc \in {"idle", "panicked"}

\* the body of BufferManager::unpin on slot s
UnpinBody(t, s) ==
    /\ th[t].pc = "idle"
    /\ Exclusive(t)
    /\ num_available < NumBufs + MaxDrift
    /\ CanLock(s)
    /\ IF s \in poisoned
       THEN Panic(t, {}) /\ UNCHANGED <<pool, num_available>>
       ELSE IF ~ is_pinned(BufferPageUnpin(pool[s]))
               /\ (AvailMutex \in poisoned \/ IncOverflows)
       THEN /\ pool' = [pool EXCEPT ![s] = BufferPageUnpin(@)]
            /\ Panic(t, {s, AvailMutex})
            /\ UNCHANGED num_available
       ELSE /\ pool' = [pool EXCEPT ![s] = BufferPageUnpin(@)]
            /\ num_available' =
                  IF is_pinned(BufferPageUnpin(pool[s]))
                  THEN num_available ELSE num_available + 1
            /\ UNCHANGED <<th, poisoned, slot_mutex>>
    /\ UNCHANGED <<datadisk, datacur, overflow_checks>>
    /\ UNCHANGED logVars
    /\ UNCHANGED nonBufVars

\* BufferManager::unpin(buffer) with a handle pin returned to this thread
Unpin(t, s, blk) ==
    /\ handles[t][<<s, blk>>] > 0
    /\ handles' = [handles EXCEPT ![t][<<s, blk>>] = @ - 1]
    /\ UnpinBody(t, s)

\* BufferManager::unpin(Arc::clone(&buffer)): the caller keeps the handle pin
\* returned and gives unpin a copy of it, so it can unpin the slot again
UnpinClone(t, s, blk) ==
    /\ handles[t][<<s, blk>>] > 0
    /\ UNCHANGED handles
    /\ UnpinBody(t, s)

\* the holder of a pin changes the page and marks it:
\* buffer.lock().contents().set_int(..); set_modified(txnum, lsn), where lsn
\* is -1 (no log record) or an LSN the log manager has handed out
Modify(t, s, txnum, lsn, v) ==
    /\ th[t].pc = "idle"
    /\ \E blk \in PinBlocks : handles[t][<<s, blk>>] > 0
    /\ CanLock(s)
    /\ IF s \in poisoned
       THEN Panic(t, {}) /\ UNCHANGED pool
       ELSE /\ pool' = [pool EXCEPT ![s] =
                  set_modified([@ EXCEPT !.contents = set_int(@, DataOffset, v)],
                               txnum, lsn)]
            /\ UNCHANGED <<th, poisoned, slot_mutex>>
    /\ UNCHANGED <<num_available, datadisk, datacur, overflow_checks, handles>>
    /\ UNCHANGED logVars
    /\ UNCHANGED nonBufVars

\* BufferManager::flush_all(txnum) is entered
FlushAllCall(t, txnum) ==
    /\ th[t].pc = "idle"
    /\ th' = [th EXCEPT ![t] =
                 [Idle EXCEPT !.pc = "fa_scan", !.i = 1, !.tx = txnum,
                              !.entry = [s \in Slots |-> pool[s].txnum]]]
    /\ UNCHANGED <<pool, num_available, datadisk, datacur, slot_mutex, poisoned,
                   overflow_checks, handles>>
    /\ UNCHANGED logVars
    /\ UNCHANGED nonBufVars

\* flush_all's loop position after slot s
FlushAllAdvance(r, s) ==
    IF s < NumBufs
    THEN [r EXCEPT !.pc = "fa_scan", !.i = s + 1]
    ELSE [r EXCEPT !.pc = "fa_ret"]

\* flush_all: lock the next slot; a slot of another transaction is skipped
FlushAllStep(t) ==
    LET s == th[t].i
    IN  /\ th[t].pc = "fa_scan"
        /\ CanLock(s)
        /\ IF s \in poisoned
           THEN Panic(t, {})
           ELSE IF pool[s].txnum = th[t].tx /\ FlushIsDirty(pool[s])
           THEN /\ slot_mutex' = [slot_mutex EXCEPT ![s] = t]
                /\ th' = [th EXCEPT ![t] = [@ EXCEPT !.pc = "fa_force", !.slot = s]]
                /\ UNCHANGED poisoned
           ELSE /\ th' = [th EXCEPT ![t] = FlushAllAdvance(@, s)]
                /\ UNCHANGED <<slot_mutex, poisoned>>
        /\ UNCHANGED <<pool, num_available, datadisk, datacur, overflow_checks, handles>>
        /\ UNCHANGED logVars
        /\ UNCHANGED nonBufVars

\* BufferPage::flush inside flush_all: force the log up to the slot's lsn
FlushAllForce(t) ==
    /\ th[t].pc = "fa_force"
    /\ FlushForceLog(pool[th[t].slot])
    /\ UNCHANGED logop
    /\ th' = [th EXCEPT ![t] = [@ EXCEPT !.pc = "fa_wseek"]]
    /\ UNCHANGED <<pool, num_available, datadisk, datacur, slot_mutex, poisoned,
                   overflow_checks, handles>>
    /\ UNCHANGED nonBufVars

\* BufferPage::flush inside flush_all: FileManager::write seeks to the
\* slot's block
FlushAllSeek(t) ==
    /\ th[t].pc = "fa_wseek"
    /\ datacur' = FlushSeek(pool[th[t].slot])
    /\ th' = [th EXCEPT ![t] = [@ EXCEPT !.pc = "fa_write"]]
    /\ UNCHANGED <<pool, num_available, datadisk, slot_mutex, poisoned,
                   overflow_checks, handles>>
    /\ UNCHANGED logVars
    /\ UNCHANGED nonBufVars

\* BufferPage::flush inside flush_all: write_all at the position the file
\* has by now, mark the slot clean, unlock
FlushAllWrite(t) ==
    LET s == th[t].slot
    IN  /\ th[t].pc = "fa_write"
        /\ datadisk' = FlushWriteDisk(pool[s])
        /\ datacur' = FlushWriteCur(pool[s])
        /\ pool' = [pool EXCEPT ![s] = FlushWritePage(@)]
        /\ slot_mutex' = [slot_mutex EXCEPT ![s] = 0]
        /\ th' = [th EXCEPT ![t] =
                     FlushAllAdvance(
                         [@ EXCEPT !.written =
                             IF pool[s].block # NoBlock /\ datacur = pool[s].block
                             THEN @ \cup {s} ELSE @],
                         s)]
        /\ UNCHANGED <<num_available, poisoned, overflow_checks, handles>>
        /\ UNCHANGED logVars
        /\ UNCHANGED nonBufVars

\* flush_all returns Ok(()) after the last slot
FlushAllReturn(t) ==
    /\ th[t].pc = "fa_ret"
    /\ th' = [th EXCEPT ![t] = Idle]
    /\ UNCHANGED <<pool, num_available, datadisk, datacur, slot_mutex, poisoned,
                   overflow_checks, handles>>
    /\ UNCHANGED logVars
    /\ UNCHANGED nonBufVars

\* a thread appends a log record (the LogManager sits behind one Mutex, so
\* each of its calls is one step)
WalLens == {1, BlockSize - 7}
WalAppend ==
    /\ latest_lsn < MaxWalAppends
    /\ \E len \in WalLens : LogAppend(len)
    /\ UNCHANGED bufVars
    /\ UNCHANGED nonBufVars

\* ------------------------------------------------------------ file: callers

\* a thread outside every FileManager call (kind, o and v are the value it
\* last put into a page and where, got is what it last took out of one)
FileIdle ==
    [pc |-> "idle", blk |-> NoBlock, page |-> << >>, kind |-> "none",
     o |-> 0, v |-> << >>, got |-> << >>]

FileInit == fio = [t \in Threads |-> FileIdle]

\* the values a thread stores: i32 values, byte arrays and strings (as code
\* points), each wrapped as a sequence
FileInts == {<< 1 >>, << -1 >>, << 2147483647 >>, << -2147483647 - 1 >>}
FileBytes == {<< >>, << 0 >>, << 255, 128 >>, [i \in 1..(BlockSize - 4) |-> i]}
FileStrings == {<< >>, << 97 >>, << 233 >>, << 8364, 97 >>}
FileValues(kind) ==
    IF kind = "int" THEN FileInts
    ELSE IF kind = "bytes" THEN FileBytes ELSE FileStrings
FileOffsets == {0, BlockSize - 6}

\* the bytes set_X writes for v at offset o lie within [o, block_size)
FileFits(kind, o, v) ==
    IF kind = "int" THEN o + 4 <= BlockSize
    ELSE IF kind = "bytes" THEN o + 4 + Len(v) <= BlockSize
    ELSE o + 4 + Len(as_bytes(v)) <= BlockSize

\* Page::set_int / set_bytes / set_string
SetX(kind, p, o, v) ==
    IF kind = "int" THEN set_int(p, o, v[1])
    ELSE IF kind = "bytes" THEN set_bytes(p, o, v) ELSE set_string(p, o, v)

\* Page::get_int / get_bytes / get_string
GetXOk(kind, p, o) == IF kind = "int" THEN get_int_ok(p, o) ELSE get_bytes_ok(p, o)
GetX(kind, p, o) ==
    IF kind = "int" THEN << get_int(p, o) >>
    ELSE IF kind = "bytes" THEN get_bytes(p, o) ELSE get_string(p, o)

\* what a file step leaves alone
FileFrame ==
    /\ UNCHANGED <<pool, num_available, slot_mutex, poisoned, overflow_checks,
                   th, handles>>
    /\ UNCHANGED logVars
    /\ UNCHANGED itVars
    /\ UNCHANGED lockVars

\* the blocks other threads are reading or writing
FileBusy(t) == {fio[u].blk : u \in Threads \ {t}}

\* a thread makes a page, puts v into it with set_X(o, v) and calls
\* FileManager::write(blk, page); blk is a block no other thread is using
FileSet(t, kind, o, v, blk) ==
    /\ fio[t].pc = "idle"
    /\ FileFits(kind, o, v)
    /\ blk \notin FileBusy(t)
    /\ fio' = [fio EXCEPT ![t] =
                  [pc |-> "wseek", blk |-> blk,
                   page |-> SetX(kind, PageNew(BlockSize), o, v),
                   kind |-> kind, o |-> o, v |-> v, got |-> << >>]]
    /\ UNCHANGED <<datadisk, datacur>>
    /\ FileFrame

\* a page of another thread: every byte is 7
FileOtherPage == [i \in 1..BlockSize |-> 7]

\* a thread calls FileManager::write with a page of its own on a block no
\* other thread is using
FileOther(t, blk) ==
    /\ fio[t].pc = "idle"
    /\ blk \notin FileBusy(t)
    /\ fio' = [fio EXCEPT ![t] =
                  [FileIdle EXCEPT !.pc = "wseek", !.blk = blk,
                                   !.page = FileOtherPage]]
    /\ UNCHANGED <<datadisk, datacur>>
    /\ FileFrame

\* FileManager::write: file.seek(SeekFrom::Start(offset)) on the clone of
\* the cached handle, which shares its position with every other clone
FileWriteSeek(t) ==
    /\ fio[t].pc = "wseek"
    /\ datacur' = fio[t].blk
    /\ fio' = [fio EXCEPT ![t] = [@ EXCEPT !.pc = "write"]]
    /\ UNCHANGED datadisk
    /\ FileFrame

\* FileManager::write: file.write_all(page.contents()) at the position the
\* file description has by now; then the caller goes on to read the block
\* back (kind set) or is done
FileWriteAll(t) ==
    /\ fio[t].pc = "write"
    /\ datadisk' = FmWrite(datadisk, datacur, fio[t].page)
    /\ datacur' = datacur + 1
    /\ fio' = [fio EXCEPT ![t] =
                  IF fio[t].kind = "none" THEN FileIdle
                  ELSE [@ EXCEPT !.pc = "rseek"]]
    /\ FileFrame

\* FileManager::read: file.seek(SeekFrom::Start(offset))
FileReadSeek(t) ==
    /\ fio[t].pc = "rseek"
    /\ datacur' = fio[t].blk
    /\ fio' = [fio EXCEPT ![t] = [@ EXCEPT !.pc = "read"]]
    /\ UNCHANGED datadisk
    /\ FileFrame

\* FileManager::read: file.read_exact(buf) into a new page at the position
\* the file description has by now, then get_X(o) on that page; read_exact
\* fails at the end of the file, and get_X panics on a length that leaves
\* the page
FileReadExact(t) ==
    /\ fio[t].pc = "read"
    /\ IF ~ FmReadOk(datadisk, datacur)
       THEN /\ fio' = [fio EXCEPT ![t] = [@ EXCEPT !.pc = "failed"]]
            /\ UNCHANGED datacur
       ELSE /\ datacur' = datacur + 1
            /\ fio' = [fio EXCEPT ![t] =
                  IF GetXOk(fio[t].kind, FmRead(datadisk, datacur), fio[t].o)
                  THEN [@ EXCEPT !.pc = "done",
                          !.got = GetX(fio[t].kind, FmRead(datadisk, datacur),
                                       fio[t].o)]
                  ELSE [@ EXCEPT !.pc = "panicked"]]
    /\ UNCHANGED datadisk
    /\ FileFrame

\* ---------------------------------------------------------- buffer: system

\* the data file the pool is opened on: empty, or holding every block
DataFiles == {<< >>, [n \in 1..NumBlocks |-> PageNew(BlockSize)]}

InitBuf ==
    /\ LogInit
    /\ BufInit
    /\ overflow_checks \in BOOLEAN
    /\ datadisk \in DataFiles
    /\ datacur = 0
    /\ it = NoIterator
    /\ LockInit
    /\ CmInit
    /\ FileInit

\* the calls of a thread that pins the blocks of B and holds h handles at
\* most when it asks for another
PinSteps(t, B, h) ==
    \/ \E blk \in B : HandleCount(t) < h /\ PinCall(t, blk)
    \/ FindStep(t)
    \/ PinExisting(t)
    \/ ChooseStep(t)
    \/ AssignLock(t)
    \/ AssignReadSeek(t)
    \/ AssignFinish(t)
    \/ PinRetry(t)
    \/ PinTimeout(t)
    \/ \E s \in Slots, blk \in B : Unpin(t, s, blk)

PinStep(t) == PinSteps(t, Blocks, MaxHandles)

EvictStep(t) ==
    \/ AssignForce(t)
    \/ AssignWriteSeek(t)
    \/ AssignWrite(t)

\* set_modified calls on behalf of the transactions of T
ModifyAny(t, T) ==
    \E s \in Slots, txnum \in T, lsn \in -1..latest_lsn, v \in 1..MaxVal :
        Modify(t, s, txnum, lsn, v)

\* flush_all calls on behalf of the transactions of T
FlushAllAny(t, T) ==
    \/ \E txnum \in T : FlushAllCall(t, txnum)
    \/ FlushAllStep(t)
    \/ FlushAllForce(t)
    \/ FlushAllSeek(t)
    \/ FlushAllWrite(t)
    \/ FlushAllReturn(t)

\* several threads pin and unpin pages
NextPin == \E t \in Threads : PinStep(t)

SpecPin == InitBuf /\ [][NextPin]_vars

\* one thread pins and unpins pages
NextPin1 == PinSteps(1, PinBlocks, MaxHandles + 1)

SpecPin1 == InitBuf /\ [][NextPin1]_vars

\* one thread pins and unpins pages and may unpin a page more often than
\* it pinned it
NextUnpin1 ==
    \/ PinSteps(1, PinBlocks, MaxHandles + 1)
    \/ \E s \in Slots, blk \in PinBlocks : UnpinClone(1, s, blk)

SpecUnpin1 == InitBuf /\ [][NextUnpin1]_vars

\* the steps of a pin call in progress
PinProgress(t) ==
    \/ FindStep(t)
    \/ PinExisting(t)
    \/ ChooseStep(t)
    \/ AssignLock(t)
    \/ AssignReadSeek(t)
    \/ AssignFinish(t)
    \/ PinRetry(t)
    \/ PinTimeout(t)

\* one thread pins and unpins pages; a call in progress keeps running, and
\* the clock passes pin's deadline: each turn of pin's loop sleeps 10 ms, so
\* `Instant::now() < deadline` fails after finitely many turns
SpecPin1Live ==
    /\ SpecPin1
    /\ WF_vars(PinProgress(1))
    /\ SF_vars(PinTimeout(1))

\* one thread pins, modifies, unpins and flushes pages while other threads
\* append log records
InitWal == InitBuf /\ overflow_checks = FALSE

WalTxns == {0}

NextWal ==
    \/ PinStep(1)
    \/ EvictStep(1)
    \/ ModifyAny(1, WalTxns)
    \/ FlushAllAny(1, WalTxns)
    \/ WalAppend

SpecWal == InitWal /\ [][NextWal]_vars

\* the second thread is outside every call and holds no handle
Quiet == th[2] = Idle /\ HandleCount(2) = 0

\* one thread pins, modifies, unpins and flushes pages on behalf of several
\* transactions over a data file that holds every block, and a second
\* thread calls pin while the first is inside flush_all; the first thread
\* begins no call while the second is at work or holds a page, and no log
\* record is appended
InitFlush2 == InitWal /\ Len(datadisk) = NumBlocks

NextFlush2 ==
    \/ \E blk \in Blocks :
          Quiet /\ HandleCount(1) < MaxHandles /\ PinCall(1, blk)
    \/ PinProgress(1)
    \/ \E s \in Slots, blk \in Blocks : Quiet /\ Unpin(1, s, blk)
    \/ EvictStep(1)
    \/ Quiet /\ ModifyAny(1, Txns)
    \/ \E txnum \in Txns : Quiet /\ FlushAllCall(1, txnum)
    \/ FlushAllStep(1)
    \/ FlushAllForce(1)
    \/ FlushAllSeek(1)
    \/ FlushAllWrite(1)
    \/ FlushAllReturn(1)
    \/ \E blk \in PinBlocks :
          InFlushAll(th[1]) /\ HandleCount(2) < 1 /\ PinCall(2, blk)
    \/ PinProgress(2)
    \/ EvictStep(2)

SpecFlush2 == InitFlush2 /\ [][NextFlush2]_vars

\* ------------------------------------------------------------ file: system

\* one thread writes a value and reads it back through the FileManager
\* while another writes pages to other blocks of the same file
NextFile ==
    \/ \E kind \in {"int", "bytes", "string"}, o \in FileOffsets, blk \in Blocks :
          \E v \in FileValues(kind) : FileSet(1, kind, o, v, blk)
    \/ FileWriteSeek(1)
    \/ FileWriteAll(1)
    \/ FileReadSeek(1)
    \/ FileReadExact(1)
    \/ \E blk \in PinBlocks : FileOther(2, blk)
    \/ FileWriteSeek(2)
    \/ FileWriteAll(2)

SpecFile == InitWal /\ [][NextFile]_vars

InitLog ==
    /\ LogInit
    /\ it = NoIterator
    /\ BufInit
    /\ overflow_checks = FALSE
    /\ datadisk = << >>
    /\ datacur = 0
    /\ LockInit
    /\ CmInit
    /\ FileInit

NextLog ==
    \/ AppendAny
    \/ FlushAny
    \/ IterAny
    \/ IterNextAny
    \/ IterSeekAny
    \/ IterReadAny

SpecLog == InitLog /\ [][NextLog]_vars

\* append on either manager, MaxAppends records between them
ReopenAppend ==
    /\ Len(appended) < MaxAppends
    /\ \E len \in RecLens : LogAppend(len)
    /\ UNCHANGED itVars
    /\ UNCHANGED bufVars
    /\ UNCHANGED lockVars /\ UNCHANGED fileVars

\* flush(latest_lsn): every record appended so far is to reach the file
ReopenFlush ==
    /\ LogFlush(latest_lsn)
    /\ logop' = [op |-> "flush", arg |-> latest_lsn]
    /\ UNCHANGED itVars
    /\ UNCHANGED bufVars
    /\ UNCHANGED lockVars /\ UNCHANGED fileVars

\* log managers made one after the other on the same log file
NextReopen ==
    \/ ReopenAppend
    \/ ReopenFlush
    \/ ReopenAny
    \/ IterAny
    \/ IterNextAny
    \/ IterSeekAny
    \/ IterReadAny

SpecReopen == InitLog /\ [][NextReopen]_vars

\* the log manager on a file manager whose calls can fail
NextLogIo ==
    \/ AppendAny
    \/ AppendFailAny
    \/ IterAny
    \/ IterNextAny
    \/ IterSeekAny
    \/ IterReadAny

SpecLogIo == InitLog /\ [][NextLogIo]_vars

\* -------------------------------------------------------------- lock: system

InitLock == InitLog

\* threads call slock, x_lock and unlock on one lock table
NextLock == \E t \in LockThreads : LockStep(t)

SpecLock == InitLock /\ [][NextLock]_vars

\* a thread inside slock or x_lock keeps running: wait_timeout returns after
\* at most max_time, and the thread then leaves the loop with a grant or,
\* once waiting_too_long, with Err(LockAbortError)
LockReturns(t) ==
    \/ SlockWake(t)
    \/ SlockAbort(t)
    \/ XlockWake(t)
    \/ XlockAbort(t)

SpecLockLive ==
    /\ SpecLock
    /\ \A t \in LockThreads : WF_vars(LockReturns(t))

\* the calls as the concurrency manager's protocol orders them: slock by a
\* thread without a lock, x_lock by a shared holder, unlock by a holder
ProtoSlock(t, blk) == SlockCall(t, blk)

ProtoXlock(t, blk) == held[t][blk] = "S" /\ XlockCall(t, blk)

ProtoUnlock(t, blk) == held[t][blk] # "N" /\ Unlock(t, blk)

ProtoStep(t) ==
    \/ \E blk \in Blocks : ProtoSlock(t, blk)
    \/ SlockWake(t)
    \/ SlockAbort(t)
    \/ \E blk \in Blocks : ProtoXlock(t, blk)
    \/ XlockWake(t)
    \/ XlockAbort(t)
    \/ \E blk \in Blocks : ProtoUnlock(t, blk)

NextProto == \E t \in LockThreads : ProtoStep(t)

SpecProto == InitLock /\ [][NextProto]_vars

\* transactions call slock, xlock and release, each on its own manager
NextCm == \E c \in Txns : CmStep(c)

SpecCm == InitLock /\ [][NextCm]_vars

\* ------------------------------------------------------------------ helpers

\* the log file holds, where append put record k, the bytes append put there
RecOnDisk(k) ==
    LET r == appended[k]
    IN  /\ r.blk < FmLength(logdisk)
        /\ SubSeq(logdisk[r.blk + 1], r.pos + 1, r.pos + Len(r.img)) = r.img

\* thread t is in BufferPage::flush, about to write the slot's page
AtPageWrite(t) ==
    /\ th[t].pc \in {"assign_write", "fa_write"}
    /\ pool[th[t].slot].block # NoBlock

\* every slot is pinned and none holds the block thread t is pinning
InPin(t) ==
    th[t].pc \in {"find", "existing", "choose", "assign", "assign_force",
                  "assign_wseek", "assign_write", "assign_rseek", "assign_read",
                  "sleep"}
PoolFull(t) ==
    /\ InPin(t)
    /\ \A s \in Slots : pool[s].pins > 0
    /\ \A s \in Slots : pool[s].block # th[t].blk

\* the order of the modes a transaction records for a block
ModeRank(mode) == IF mode = "X" THEN 2 ELSE 1

\* the threads that hold a lock on blk in the lock table's history
Holders(blk) == {t \in LockThreads : held[t][blk] # "N"}

\* ------------------------------------------------------------------- claims

\* C1: write-ahead rule. Whenever BufferPage::flush (from flush_all or from
\* assign_to_block on eviction) writes a page whose recorded LSN is L to the
\* data file, every log record with LSN <= L is already in the log file,
\* whatever appends other threads have interleaved.
C1_WriteAheadRule ==
    [][\A t \in Threads :
          (AtPageWrite(t) /\ th'[t].pc # th[t].pc)
              => \A k \in 1..Len(appended) :
                    k <= pool[th[t].slot].lsn => RecOnDisk(k)]_vars

\* C1 witness: a page modified under an LSN >= 1 has been written to the
\* data file, its log record is in the log file, and a later append is not
C1_Witness ==
    \E s \in Slots :
        /\ pool[s].block # NoBlock
        /\ pool[s].txnum = -1
        /\ pool[s].lsn >= 1
        /\ pool[s].block < FmLength(datadisk)
        /\ get_int(datadisk[pool[s].block + 1], DataOffset) # 0
        /\ RecOnDisk(pool[s].lsn)
        /\ latest_lsn > pool[s].lsn
        /\ ~ RecOnDisk(latest_lsn)

\* C2: all transactions share one lock table, so two concurrency managers
\* never hold an exclusive lock on a block that the other one also holds.
C2_SharedLockTable ==
    /\ \A c, d \in Txns : cm_table[c] = cm_table[d]
    /\ \A c, d \in Txns : \A blk \in Blocks :
          (c # d /\ blk \in DOMAIN cm_locks[c] /\ blk \in DOMAIN cm_locks[d])
              => (cm_locks[c][blk] # "X" /\ cm_locks[d][blk] # "X")

\* C3: with concurrent pin calls, no two pool slots hold the same block.
C3_NoDuplicateBlock ==
    \A s1, s2 \in Slots :
        (s1 # s2 /\ pool[s1].block # NoBlock) => pool[s1].block # pool[s2].block

\* C4: a slot for which pin returned a handle for block b keeps naming b,
\* with pins >= 1, until the holder unpins, under concurrent pin calls.
C4_PinnedSlotStable ==
    \A t \in Threads : \A s \in Slots : \A blk \in Blocks :
        handles[t][<<s, blk>>] > 0
            => (pool[s].block = blk /\ pool[s].pins >= 1)

\* C5: single-threaded, between calls, available() is the number of slots
\* whose pins is 0.
C5_AvailableCountsUnpinned ==
    th[1].pc = "idle"
        => available = Cardinality({s \in Slots : pool[s].pins = 0})

\* C5 witness: between calls, one slot is pinned twice and the other is free
C5_Witness ==
    /\ th[1].pc = "idle"
    /\ available = NumBufs - 1
    /\ \E s \in Slots : pool[s].pins = 2 /\ handles[1][<<s, pool[s].block>>] = 2

\* C6: for any sequence of appends, an iterator run to its end yields every
\* record appended before it was made exactly once, newest first.
C6_IteratorNewestFirst ==
    /\ it.state # "panicked"
    /\ it.state = "ended" => it.out = Reverse(it.snap)

\* C7: after flush(lsn) returns, every record whose LSN is <= lsn can be
\* decoded from the log file alone.
C7_FlushedRecordsDecodable ==
    logop.op = "flush"
        => \A k \in 1..latest_lsn :
              k <= logop.arg
                  => \E j \in 1..Len(DiskScan(logdisk).recs) :
                        DiskScan(logdisk).recs[j] = appended[k].rec

\* C8: under the concurrency manager's protocol (slock before x_lock, one
\* grant per caller and block, unlock only by holders), whenever the map
\* value of a block is -1 exactly one caller holds a lock on it.
C8_ExclusiveHasOneHolder ==
    usage = "protocol"
        => \A blk \in Blocks :
              get_lock_value(locks, blk) = -1 => Cardinality(Holders(blk)) = 1

\* C8 witness: a shared holder has upgraded to the exclusive lock
C8_Witness ==
    /\ usage = "protocol"
    /\ \E t \in LockThreads : \E blk \in Blocks :
          held[t][blk] = "X" /\ get_lock_value(locks, blk) = -1

\* C9: an x_lock by a thread that held no lock on the block is not granted
\* while another thread holds a lock of any type on it.
C9_DirectXlockExcludes ==
    usage # "stray"
        => \A t \in LockThreads : \A blk \in Blocks :
              held[t][blk] = "XD" => Holders(blk) = {t}

\* C10: ConcurrencyManager::xlock on a block no other transaction holds
\* ends with success; it neither hangs nor panics.
C10_XlockSucceeds ==
    \A c \in Txns : cm[c].alone => cm[c].pc \notin RelockOutcomes

\* C11: when every slot is pinned, the requested block is not resident and
\* no unpin occurs, pin(block) changes no slot (block, pins, dirty state)
\* and not available(), returns only by its timeout error, and does return.
C11_PinTimesOut ==
    /\ [][PoolFull(1) =>
             /\ pool' = pool
             /\ num_available' = num_available
             /\ handles' = handles
             /\ th'[1].pc # "panicked"
             /\ th'[1].pc = "idle" => th[1].pc = "sleep"]_vars
    /\ (PoolFull(1) ~> th[1].pc = "idle")

\* C11 witness: pin has found no slot for its block in a full pool and
\* sleeps; the timeout can end it
C11_Witness ==
    /\ PoolFull(1)
    /\ th[1].pc = "sleep"
    /\ available = 0
    /\ ENABLED PinTimeout(1)

\* C12: a slock that times out on an exclusively locked block, or an x_lock
\* that times out on other shared holders, returns LockAbort and leaves the
\* lock map as it was; the caller gains no lock.
C12_TimeoutLeavesMap ==
    [][\A t \in LockThreads :
          (~ lt[t].aborted /\ lt'[t].aborted)
              => (locks' = locks /\ held'[t] = held[t])]_vars

\* C12 witness: a slock has returned LockAbort; the block is still locked
\* exclusively by another thread and the caller holds nothing on it
C12_Witness ==
    \E t \in LockThreads : \E blk \in Blocks :
        /\ lt[t].aborted
        /\ held[t][blk] = "N"
        /\ get_lock_value(locks, blk) = -1
        /\ \E u \in LockThreads \ {t} : held[u][blk] \in {"X", "XD"}

\* C13: when the read of the requested block fails while pin is assigning an
\* unpinned slot, the slot's block field is what it was before the call.
C13_FailedReadKeepsBlock ==
    [][(th[1].pc = "assign_read" /\ th'[1].pc = "sleep")
          => pool'[th[1].slot].block = pool[th[1].slot].block]_vars

\* C14: pin returns a slot for a block only when the block's read into that
\* slot succeeded: a failed read is not retried and gives no pinned slot.
C14_PinnedSlotWasRead ==
    \A s \in Slots : \A blk \in PinBlocks :
        (handles[1][<<s, blk>>] > 0 /\ pool[s].block = blk) => pool[s].loaded

\* C15: for any sequence of pin and unpin calls, unpin of a slot whose pin
\* count is already 0 included, no pin count goes below 0 and available()
\* is the number of slots with pin count 0, so never above the pool size.
C15_UnpinSaturates ==
    th[1].pc = "idle"
        => /\ \A s \in Slots : pool[s].pins >= 0
           /\ available = Cardinality({s \in Slots : pool[s].pins = 0})
           /\ available <= NumBufs

\* C16: under any interleaving of slock, x_lock and unlock calls, unlock of
\* a block without an entry included, every value stored in the lock map is
\* -1 or a positive integer.
C16_LockValuesLegal ==
    \A blk \in DOMAIN locks : locks[blk] = -1 \/ locks[blk] > 0

\* C16 witness: after an unlock by a thread that held nothing, the map holds
\* an exclusive entry and a shared entry
C16_Witness ==
    /\ usage = "stray"
    /\ \E b1, b2 \in DOMAIN locks : locks[b1] = -1 /\ locks[b2] > 0

\* C17: the k-th successful append on a LogManager returns LSN k: each
\* returned LSN is one greater than the one before, the first is 1.
C17_LsnCountsAppends ==
    [][Len(appended') = Len(appended) + 1
          => (logop'.op = "append" /\ logop'.arg = Len(appended'))]_vars

\* C17 witness: an append that rolled over to a second block has returned
\* an LSN of 3 or more
C17_Witness ==
    /\ logop.op = "append"
    /\ logop.arg >= 3
    /\ logop.arg = Len(appended)
    /\ appended[Len(appended)].blk >= 1
    /\ appended[Len(appended)].blk > appended[Len(appended) - 1].blk

\* C18: ConcurrencyManager.slock(b) by a transaction whose map already has
\* b changes neither the lock-table value of b nor the recorded mode; a
\* recorded mode never moves down, a new entry made by slock is Shared, and
\* an entry leaves the map only by release.
C18_SlockOnHeldIsNoOp ==
    [][\A c \in Txns : \A blk \in Blocks :
          /\ (cm'[c] # cm[c] /\ cm'[c].op = "slock" /\ cm'[c].blk = blk
                 /\ blk \in DOMAIN cm_locks[c])
                => /\ cm_locks'[c] = cm_locks[c]
                   /\ cm_table'[c] = cm_table[c]
          /\ (blk \in DOMAIN cm_locks[c] /\ blk \in DOMAIN cm_locks'[c])
                => ModeRank(cm_locks'[c][blk]) >= ModeRank(cm_locks[c][blk])
          /\ (blk \notin DOMAIN cm_locks[c] /\ blk \in DOMAIN cm_locks'[c]
                 /\ cm'[c].op = "slock")
                => cm_locks'[c][blk] = "S"
          /\ (blk \in DOMAIN cm_locks[c] /\ blk \notin DOMAIN cm_locks'[c])
                => cm'[c].op = "release"]_vars

\* C18 witness: a transaction has called slock on a block it already held
\* Shared; the lock-table value of the block is still 1
C18_Witness ==
    \E c \in Txns :
        /\ cm[c].op = "slock"
        /\ cm[c].had
        /\ cm[c].blk \in DOMAIN cm_locks[c]
        /\ cm_locks[c][cm[c].blk] = "S"
        /\ get_lock_value(cm_table[c], cm[c].blk) = 1

\* the transactions other than c whose map has an entry for blk
OtherHolders(c, blk) == {d \in Txns \ {c} : blk \in DOMAIN cm_locks[d]}

\* C19: after ConcurrencyManager.release() the transaction's map is empty; a
\* block it held exclusively or as the only shared holder has no lock-table
\* entry, a block it shared with n other holders has value n, and the
\* entries of blocks it did not hold are unchanged.
C19_ReleaseUnlocksOnce ==
    [][\A c \in Txns :
          (cm'[c] # cm[c] /\ cm'[c].op = "release")
             => /\ cm_locks'[c] = << >>
                /\ \A blk \in Blocks :
                      IF blk \in DOMAIN cm_locks[c]
                      THEN IF \/ cm_locks[c][blk] = "X"
                              \/ OtherHolders(c, blk) = {}
                           THEN blk \notin DOMAIN cm_table'[c]
                           ELSE get_lock_value(cm_table'[c], blk)
                                   = Cardinality(OtherHolders(c, blk))
                      ELSE get_lock_value(cm_table'[c], blk)
                              = get_lock_value(cm_table[c], blk)]_vars

\* the slots whose page has been written to its block since flush_all began
WrittenSince(r) == r.written \cup r.evicted

\* C20: when flush_all(tx) returns Ok, with no set_modified during the call,
\* no slot has modifying_txn = tx, every slot that had modifying_txn = tx
\* when the call began has had its page written to its block, and every
\* slot that another transaction had modified is not written by flush_all
\* and is still marked with that transaction (unless a pin of another
\* thread has evicted its page meanwhile, which writes it and marks it
\* clean).
C20_FlushAllCleans ==
    th[1].pc = "fa_ret" =>
        \A s \in Slots :
            /\ pool[s].txnum # th[1].tx
            /\ th[1].entry[s] = th[1].tx => s \in WrittenSince(th[1])
            /\ th[1].entry[s] \notin {-1, th[1].tx}
                  => /\ s \notin th[1].written
                     /\ IF s \in th[1].evicted
                        THEN pool[s].txnum = -1
                        ELSE pool[s].txnum = th[1].entry[s]

\* C21: LogManager.flush(lsn) with lsn < last_saved_lsn is a no-op: the log
\* file, last_saved_lsn, latest_lsn, the tail page and the current block
\* are as before the call.
C21_StaleFlushIsNoOp ==
    [][(logop'.op = "flush" /\ logop'.arg < last_saved_lsn)
          => /\ logdisk' = logdisk
             /\ last_saved_lsn' = last_saved_lsn
             /\ latest_lsn' = latest_lsn
             /\ logpage' = logpage
             /\ current_blk' = current_blk]_vars

\* C21 witness: flush(lsn) was called with lsn below last_saved_lsn while
\* the tail page held a record the log file did not
C21_Witness ==
    /\ logop.op = "flush"
    /\ logop.arg < last_saved_lsn
    /\ latest_lsn > last_saved_lsn
    /\ logdisk # FlushInternalDisk

\* C22: a value put into a page with set_X(o, v), written to a block with
\* FileManager.write and read back from the block into another page with
\* FileManager.read comes out of get_X(o) unchanged, whatever is written to
\* other blocks of the file.
C22_RoundTrip ==
    fio[1].pc \in {"done", "failed", "panicked"}
        => (fio[1].pc = "done" /\ fio[1].got = fio[1].v)

\* C23: a thread waiting in x_lock(b) whose wait condition has ended (no
\* other shared lock on b is left) has been notified by the unlock that
\* ended it, so it need not wait for its own timeout.  The code notifies
\* only when unlock removes the entry: the unlock that takes the count of
\* b from 2 to 1 notifies nobody.
C23_UnlockWakesXlockWaiter ==
    \A t \in LockThreads :
        (lt[t].pc = "x_wait" /\ ~ has_other_s_locks(locks, lt[t].blk))
            => lt[t].notified

\* C24: every slock or x_lock call eventually returns, granted or with
\* LockAbort, whatever the other threads do; two shared holders that both
\* call x_lock on the block both return.
C24_LockCallsReturn ==
    \A t \in LockThreads : (lt[t].pc # "idle") ~> (lt[t].pc = "idle")

\* C24 witness: the upgrade deadlock; every thread holds a shared lock on one
\* block and waits inside x_lock on it
C24_Witness ==
    \E b \in Blocks :
        \A t \in LockThreads :
            /\ held[t][b] = "S"
            /\ lt[t].pc = "x_wait"
            /\ lt[t].blk = b

\* C25: when pin reassigns an unpinned dirty slot to a different block, the
\* write of assign_to_block's flush, which precedes the read of the new
\* block, leaves the slot's page in its previous block on disk, and the slot
\* is clean afterwards.
C25_EvictionWritesBack ==
    [][\A t \in Threads :
          (/\ th[t].pc = "assign_write"
           /\ th'[t].pc = "assign_rseek"
           /\ pool[th[t].slot].block \notin {NoBlock, th[t].blk})
              => /\ FmReadOk(datadisk', pool[th[t].slot].block)
                 /\ FmRead(datadisk', pool[th[t].slot].block)
                       = pool[th[t].slot].contents
                 /\ ~ FlushIsDirty(pool'[th[t].slot])]_vars

\* C26: an append that fails with an I/O error during a block rollover does
\* not advance latest_lsn and leaves the in-memory tail page and the
\* current block as they were before the call.
C26_FailedAppendLeavesTail ==
    [][logop'.op = "append_err"
          => /\ latest_lsn' = latest_lsn
             /\ logpage' = logpage
             /\ current_blk' = current_blk]_vars

\* C27: whenever a transaction has no ConcurrencyManager call in progress,
\* the blocks in its lock map are exactly the blocks on which it holds an
\* unreleased lock-table grant, one grant each.  Every manager's table is
\* its own, so the value the table holds for a block is the number of the
\* transaction's grants that no unlock has taken back.
C27_MapMatchesGrants ==
    \A c \in Txns :
        cm[c].pc \notin {"xlock", "deadlocked"}
            => \A b \in Blocks :
                  get_lock_value(cm_table[c], b)
                      = IF b \in DOMAIN cm_locks[c] THEN 1 ELSE 0

\* C27 witness: a transaction that holds some blocks and not others has
\* just called slock on a block it held
C27_Witness ==
    \E c \in Txns :
        /\ cm[c].pc = "idle"
        /\ cm[c].op = "slock"
        /\ cm[c].had
        /\ DOMAIN cm_locks[c] # {}
        /\ DOMAIN cm_locks[c] # Blocks

\* every record appended so far lies behind its page's 4-byte header
RecordsClearOfHeader == \A k \in 1..Len(appended) : appended[k].pos >= INT_SIZE

\* C28: an iterator obtained from iter() yields exactly the records appended
\* before iter() was called, newest first, whatever appends, tail flushes
\* and rollovers happen while it is consumed.  Stated for logs whose records
\* all lie behind the page header, a call of next that returns an error or
\* panics counts as a failure.
C28_IteratorSnapshot ==
    RecordsClearOfHeader
        => /\ it.state \notin {"failed", "panicked"}
           /\ it.state = "ended" => it.out = Reverse(it.snap)

\* C29: after every successful append the tail page's boundary is at least
\* 4 and at most block_size, and every record stored in the tail page, the
\* new one and the earlier ones, lies in [boundary, block_size) and reads
\* back as it was appended.
C29_RecordsBehindHeader ==
    logop.op = "append"
        => /\ get_int(logpage, 0) >= INT_SIZE
           /\ get_int(logpage, 0) <= BlockSize
           /\ \A k \in 1..Len(appended) :
                 appended[k].blk = current_blk
                     => /\ appended[k].pos >= get_int(logpage, 0)
                        /\ appended[k].pos + INT_SIZE + Len(appended[k].rec)
                              <= BlockSize
                        /\ get_bytes_ok(logpage, appended[k].pos)
                        /\ get_bytes(logpage, appended[k].pos) = appended[k].rec

\* C30: a LogManager constructed on the log file of an earlier one starts
\* its LSNs from 0, and an iterator obtained from it and run to its end
\* yields the records appended through it first and then every record the
\* earlier manager had flushed, each as it was appended.
C30_ReopenKeepsFlushed ==
    /\ logop.op = "reopen" => latest_lsn = 0
    /\ (it.state \in {"ended", "panicked"} /\ Len(it.snap) > it.own)
          => (it.state = "ended" /\ it.out = Reverse(it.snap))

====
